---- MODULE Spec2Model ----
(***************************************************************************)
(* Model of the trip-planner HTTP facade (backend/trip-planner/main.py)    *)
(* and of the manual test driver (testing/test_run_endpoint.py).           *)
(*                                                                         *)
(* Spec is the facade, DriverSpec the driver's create_session, MainSpec    *)
(* the driver run as a script from its argument list.                      *)
(*                                                                         *)
(* One HTTP request travels down the middleware stack that main.py         *)
(* registers, reaches the framework's router/endpoint, and the response    *)
(* (or the exception) travels back up through the same stages.             *)
(***************************************************************************)
EXTENDS Integers, Sequences, FiniteSets, TLC

VARIABLES
    phase,        \* "idle" | "down" | "up" | "drain" | "sent"
    pos,          \* index into MiddlewareStack of the stage that acts next
    request,      \* the request in flight
    response,     \* the response travelling up (NoResponse while there is none)
    exc,          \* the exception travelling up (NoExc while there is none)
    no_compress,  \* process_run_response: local no_compress
    body,         \* process_run_response: local body (bytes buffered so far)
    nread,        \* chunks process_run_response has taken from response.body_iterator
    inner,        \* the response call_next handed to process_run_response
    produced,     \* the response the endpoint produced
    emitted,      \* what process_run_response returned, and how:
                  \* "none" | "passthrough" (the object it was given) | "new"
    log,          \* logger output, one tag per logger call
    trace,        \* <<direction, stage>> for every stage that handled the request
    client,       \* what the HTTP client received
    d_pc,         \* driver: position in create_session
    d_listing,    \* driver: answer of the session listing endpoint
    d_active,     \* driver: active_sessions
    d_session_id, \* driver: session_id
    d_calls,      \* driver: HTTP calls issued so far, in order
    d_result,     \* driver: outcome of create_session
    args,         \* __main__: sys.argv[1:]
    use_complex,  \* __main__: use_complex
    use_fresh,    \* __main__: use_fresh
    session_id,   \* __main__: session_id (and the id its fresh-session functions make)
    custom_query, \* __main__: custom_query
    m_pc,         \* __main__: the function the script is in, "exit", "traceback"
    m_listed      \* list_sessions: the identifiers it printed, in order

serverVars == <<phase, pos, request, response, exc, no_compress, body, nread,
                inner, produced, emitted, log, trace, client>>
driverVars == <<d_pc, d_listing, d_active, d_session_id, d_calls, d_result>>
mainVars == <<args, use_complex, use_fresh, session_id, custom_query, m_pc, m_listed>>
vars == <<phase, pos, request, response, exc, no_compress, body, nread,
          inner, produced, emitted, log, trace, client,
          d_pc, d_listing, d_active, d_session_id, d_calls, d_result,
          args, use_complex, use_fresh, session_id, custom_query, m_pc, m_listed>>

(***************************************************************************)
(* Bounds of the model.                                                    *)
(***************************************************************************)
MaxChunks == 2      \* chunks of a streamed endpoint body
MaxSessions == 2    \* session objects in a listing answer

(***************************************************************************)
(* Bytes.  A byte string is held run-length encoded: a sequence of         *)
(* <<byte value, count>> runs, counts positive, adjacent runs of different *)
(* values.  Two byte strings are equal exactly when their encodings are.   *)
(***************************************************************************)
Byte == [SP     |-> 32,     \* ' '   JSON whitespace
         DIGIT  |-> 49,     \* '1'   a JSON document on its own
         LBRACE |-> 123,    \* '{'   an incomplete JSON document
         BADUTF |-> 255,    \* 0xFF  never valid in UTF-8
         GZ1    |-> 31,     \* gzip magic, first byte
         GZ2    |-> 139]    \* gzip magic, second byte

RECURSIVE Norm(_)
Norm(runs) ==
    IF runs = <<>> THEN <<>>
    ELSE IF Head(runs)[2] = 0 THEN Norm(Tail(runs))
    ELSE LET rest == Norm(Tail(runs))
         IN  IF rest # <<>> /\ rest[1][1] = Head(runs)[1]
             THEN <<<<Head(runs)[1], Head(runs)[2] + rest[1][2]>>>> \o Tail(rest)
             ELSE <<Head(runs)>> \o rest

\* b"..." literal: the byte string of the given byte values.
Bytes(values) == Norm([i \in 1..Len(values) |-> <<values[i], 1>>])

\* a + b on bytes
BCat(a, b) == Norm(a \o b)

RECURSIVE BLen(_)
\* len(b)
BLen(b) == IF b = <<>> THEN 0 ELSE Head(b)[2] + BLen(Tail(b))

BDropFirst(b) == Norm(<<<<b[1][1], b[1][2] - 1>>>> \o Tail(b))

BDropLast(b) ==
    Norm(SubSeq(b, 1, Len(b) - 1) \o <<<<b[Len(b)][1], b[Len(b)][2] - 1>>>>)

RECURSIVE Concat(_)
\* body = b""; for chunk in chunks: body += chunk
Concat(chunks) ==
    IF chunks = <<>> THEN <<>>
    ELSE BCat(Head(chunks), Concat(Tail(chunks)))

Pad(n) == Norm(<<<<Byte.SP, n>>>>)

\* gzip.compress: magic, payload, trailer carrying the payload size (ISIZE).
GzipCompress(b) ==
    BCat(BCat(Bytes(<<Byte.GZ1, Byte.GZ2>>), b), Bytes(<<BLen(b) % 256>>))

GzipValid(z) ==
    /\ BLen(z) >= 3
    /\ z[1][1] = Byte.GZ1
    /\ BDropFirst(z)[1][1] = Byte.GZ2
    /\ z[Len(z)][1] = (BLen(z) - 3) % 256

\* gzip.decompress: defined on valid input only (it raises otherwise).
GzipDecompress(z) == BDropLast(BDropFirst(BDropFirst(z)))

\* bytes.decode(): raises on a byte that is not UTF-8.
Utf8Valid(b) == \A i \in 1..Len(b) : b[i][1] < 128

\* json.loads on the decoded text: whitespace, one number, whitespace.
JsonValid(b) ==
    /\ \A i \in 1..Len(b) : b[i][1] \in {Byte.SP, Byte.DIGIT}
    /\ Cardinality({i \in 1..Len(b) : b[i][1] = Byte.DIGIT}) = 1

(***************************************************************************)
(* Strings.  str.lower() and the lower-casing of header names, on the      *)
(* strings the model uses.                                                 *)
(***************************************************************************)
Lower(s) ==
    CASE s = "TRUE" -> "true"
      [] s = "True" -> "true"
      [] s = "YES" -> "yes"
      [] s = "Yes" -> "yes"
      [] s = "Maybe" -> "maybe"
      [] s = "Content-Encoding" -> "content-encoding"
      [] s = "Content-Length" -> "content-length"
      [] s = "Content-Type" -> "content-type"
      [] s = "Set-Cookie" -> "set-cookie"
      [] s = "Vary" -> "vary"
      [] s = "Access-Control-Allow-Credentials" -> "access-control-allow-credentials"
      [] s = "Access-Control-Allow-Origin" -> "access-control-allow-origin"
      [] OTHER -> s

(***************************************************************************)
(* Headers.  A header list is a sequence of <<name, value>> pairs, as in   *)
(* the raw header list of a response; names are stored lower-cased.        *)
(***************************************************************************)
NoValue == "<None>"

RECURSIVE HFirst(_, _)
\* response.headers.get(name): case-insensitive, first entry of that name.
HFirst(h, name) ==
    IF h = <<>> THEN NoValue
    ELSE IF Head(h)[1] = Lower(name) THEN Head(h)[2]
    ELSE HFirst(Tail(h), name)

HGet(h, name) == HFirst(h, name)

HNames(h) == {h[i][1] : i \in 1..Len(h)}

RECURSIVE HDelAll(_, _)
HDelAll(h, key) ==
    IF h = <<>> THEN <<>>
    ELSE IF Head(h)[1] = key THEN HDelAll(Tail(h), key)
    ELSE <<Head(h)>> \o HDelAll(Tail(h), key)

\* MutableHeaders.__setitem__: replace the first entry of that name and drop
\* the later ones, or append.
RECURSIVE HSet(_, _, _)
HSet(h, name, value) ==
    IF h = <<>> THEN <<<<Lower(name), value>>>>
    ELSE IF Head(h)[1] = Lower(name)
         THEN <<<<Lower(name), value>>>> \o HDelAll(Tail(h), Lower(name))
    ELSE <<Head(h)>> \o HSet(Tail(h), name, value)

\* dict(response.headers): one entry per distinct name, in order of first
\* occurrence, holding the value the mapping gives for that name (the first).
RECURSIVE HeadersDict(_)
HeadersDict(h) ==
    IF h = <<>> THEN <<>>
    ELSE <<Head(h)>> \o HeadersDict(HDelAll(Tail(h), Head(h)[1]))

\* `key in headers` on the dict: exact, case-sensitive match of a key.
DictHas(d, key) == \E i \in 1..Len(d) : d[i][1] = key

\* `del headers[key]` on the dict.
DictDel(d, key) == HDelAll(d, key)

(***************************************************************************)
(* The middleware stack.  Starlette's add_middleware inserts the new stage *)
(* at the front of user_middleware, and the stack is built as              *)
(* ServerErrorMiddleware (which holds the handler registered for           *)
(* Exception), the user middleware in list order, then the router.         *)
(***************************************************************************)
AddMiddlewareAppend(user_middleware, cls) == Append(user_middleware, cls)

AddMiddleware(user_middleware, cls) == <<cls>> \o user_middleware

\* The registrations of main.py, in program order.
Registrations ==
    <<"CORSMiddleware", "GZipMiddleware", "LoggingMiddleware", "process_run_response">>

RECURSIVE Register(_, _)
Register(user_middleware, regs) ==
    IF regs = <<>> THEN user_middleware
    ELSE Register(AddMiddleware(user_middleware, Head(regs)), Tail(regs))

MiddlewareStack ==
    <<"ServerErrorMiddleware">> \o Register(<<>>, Registrations) \o <<"router">>

MinimumSize == 1000

AllowOrigins ==
    {"https://genai-exchange-ui.vercel.app/", "http://localhost:3000",
     "http://localhost:5173", "http://localhost:8083", "http://localhost:8080"}

(***************************************************************************)
(* Inputs: the requests a client can send and what the framework's         *)
(* endpoint can answer.                                                    *)
(***************************************************************************)
NoExc == "<no exception>"
NoResponse == [kind |-> "none"]
NoContent == [kind |-> "none"]
NoClient == [kind |-> "none"]

Paths == {"/run", "/run/", "/list-apps"}

\* Query strings, as the ordered (name, value) pairs the URL carries.
Queries ==
    {<<>>,
     <<<<"noCompress", "true">>>>,
     <<<<"noCompress", "TRUE">>>>,
     <<<<"noCompress", "1">>>>,
     <<<<"noCompress", "Yes">>>>,
     <<<<"noCompress", "">>>>,
     <<<<"noCompress", "maybe">>>>,
     <<<<"noCompress", "false">>>>,
     <<<<"nocompress", "true">>>>,
     <<<<"noCompress", "true">>, <<"noCompress", "false">>>>,
     <<<<"noCompress", "false">>, <<"noCompress", "yes">>>>,
     <<<<"streaming", "1">>, <<"noCompress", "YES">>>>}

Origins == {"http://localhost:3000", "http://attacker.example"}

Requests ==
    [method : {"POST"}, path : Paths, query : Queries, query_error : {FALSE},
     accept_gzip : BOOLEAN, origin : Origins]
    \cup
    [method : {"POST"}, path : {"/run"}, query : {<<<<"noCompress", "true">>>>},
     query_error : {TRUE}, accept_gzip : BOOLEAN, origin : {"http://localhost:3000"}]

\* Response(content, status_code, headers): the raw header list holds the
\* names lower-cased, and a content-length for the body.
MakeResponse(status, headers, content) ==
    [status |-> status,
     headers |-> [i \in 1..Len(headers) |-> <<Lower(headers[i][1]), headers[i][2]>>]
                 \o (IF \E i \in 1..Len(headers) : Lower(headers[i][1]) = "content-length"
                     THEN <<>>
                     ELSE <<<<"content-length", ToString(BLen(content))>>>>),
     streaming |-> FALSE,
     chunks |-> <<content>>,
     fail_after |-> 0]

\* StreamingResponse(iterator, status_code, headers): no content-length; the
\* iterator yields `chunks` and, when fail_after = k > 0, raises after the
\* k-th chunk.
MakeStreaming(status, headers, chunks, fail_after) ==
    [status |-> status,
     headers |-> [i \in 1..Len(headers) |-> <<Lower(headers[i][1]), headers[i][2]>>],
     streaming |-> TRUE,
     chunks |-> chunks,
     fail_after |-> fail_after]

JsonType == <<"Content-Type", "application/json">>

EndpointHeaders ==
    {<<JsonType>>,
     <<JsonType, <<"Set-Cookie", "a=1">>, <<"Set-Cookie", "b=2">>>>}

EndpointBodies ==
    {Bytes(<<Byte.DIGIT>>),
     Bytes(<<Byte.LBRACE>>),
     Bytes(<<Byte.BADUTF>>),
     BCat(Bytes(<<Byte.DIGIT>>), Pad(MinimumSize - 2)),
     BCat(Bytes(<<Byte.DIGIT>>), Pad(MinimumSize - 1))}

StreamChunks == {Bytes(<<Byte.DIGIT>>), Bytes(<<Byte.SP>>)}

ChunkSeqs == UNION {[1..n -> StreamChunks] : n \in 0..MaxChunks}

\* What the router and the endpoint behind it do with a request: raise, or
\* answer with a plain or a streamed response.
EndpointOutcomes ==
    {[raises |-> "agent failed", response |-> NoResponse]}
    \cup
    {[raises |-> NoExc, response |-> MakeResponse(st, h, b)] :
        st \in {200, 404}, h \in EndpointHeaders, b \in EndpointBodies}
    \cup
    {[raises |-> NoExc,
      response |-> MakeResponse(200, <<JsonType, <<"Content-Encoding", "gzip">>>>, b)] :
        b \in {GzipCompress(Bytes(<<Byte.DIGIT>>)), Bytes(<<Byte.DIGIT>>)}}
    \cup
    {[raises |-> NoExc, response |-> MakeStreaming(200, <<JsonType>>, p[1], p[2])] :
        p \in {q \in ChunkSeqs \X (0..MaxChunks) : q[2] <= Len(q[1])}}

StreamError == "stream failed"

(***************************************************************************)
(* The stages.  Down(s) / Up(s): stage s handles the request on its way    *)
(* in / the response or exception on its way out.                          *)
(***************************************************************************)
Down(stage) == phase = "down" /\ MiddlewareStack[pos] = stage
Up(stage) == phase = "up" /\ MiddlewareStack[pos] = stage

\* call_next(request)
CallNext(stage) ==
    /\ pos' = pos + 1
    /\ phase' = "down"
    /\ trace' = Append(trace, <<"request", stage>>)

\* The stage returns (or lets the exception through) to the stage around it;
\* the outermost stage answers the client.
Return(stage) ==
    /\ pos' = pos - 1
    /\ phase' = IF pos = 1 THEN "sent" ELSE "up"
    /\ trace' = Append(trace, <<"response", stage>>)

Receive ==
    /\ phase = "idle"
    /\ \E req \in Requests : request' = req
    /\ phase' = "down"
    /\ pos' = 1
    /\ UNCHANGED <<response, exc, no_compress, body, nread, inner, produced, emitted, log,
                   trace, client>>
    /\ UNCHANGED driverVars
    /\ UNCHANGED mainVars

ServerErrorDown ==
    /\ Down("ServerErrorMiddleware")
    /\ CallNext("ServerErrorMiddleware")
    /\ UNCHANGED <<request, response, exc, no_compress, body, nread, inner, produced, emitted,
                   log, client>>
    /\ UNCHANGED driverVars
    /\ UNCHANGED mainVars

\* dict(request.query_params): one value per name, the last one given.
RECURSIVE QueryGet(_, _, _)
QueryGet(query, name, default) ==
    IF query = <<>> THEN default
    ELSE IF query[Len(query)][1] = name THEN query[Len(query)][2]
    ELSE QueryGet(SubSeq(query, 1, Len(query) - 1), name, default)

TruthyNoCase(value) == value \in {"true", "1", "yes"}

Truthy(value) == Lower(value) \in {"true", "1", "yes"}

\* no_compress = query_params.get("noCompress", "").lower() in ["true", "1", "yes"]
NoCompressFlag(query) == Truthy(QueryGet(query, "noCompress", ""))

\* The try block around the query parameters: what it leaves in no_compress,
\* what it logs, and the exception that leaves it (none: `except Exception`
\* logs the error and goes on).
ParseNoCompress(req) ==
    IF req.query_error
    THEN [no_compress |-> FALSE,
          log |-> <<<<"Error parsing query params">>>>,
          raised |-> NoExc]
    ELSE [no_compress |-> NoCompressFlag(req.query),
          log |-> <<<<"Request query parameters">>>>
                  \o (IF NoCompressFlag(req.query)
                      THEN <<<<"Client requested no compression">>,
                             <<"Will remove Content-Encoding header">>>>
                      ELSE <<>>),
          raised |-> NoExc]

\* process_run_response up to `await call_next(request)`.
InterceptorDown ==
    /\ Down("process_run_response")
    /\ no_compress' = ParseNoCompress(request).no_compress
    /\ log' = log \o ParseNoCompress(request).log
    /\ IF ParseNoCompress(request).raised = NoExc
       THEN /\ CallNext("process_run_response")
            /\ exc' = exc
       ELSE /\ exc' = ParseNoCompress(request).raised
            /\ Return("process_run_response")
    /\ UNCHANGED <<request, response, body, nread, inner, produced, emitted, client>>
    /\ UNCHANGED driverVars
    /\ UNCHANGED mainVars

URLPathOnly(req) == <<req.path, <<>>>>

\* str(request.url): the path and the query string as the client sent it.
URL(req) == <<req.path, req.query>>

\* LoggingMiddleware.dispatch up to `await call_next(request)`.
LoggingDown ==
    /\ Down("LoggingMiddleware")
    /\ log' = Append(log, <<"Request", request.method, URL(request)>>)
    /\ CallNext("LoggingMiddleware")
    /\ UNCHANGED <<request, response, exc, no_compress, body, nread, inner, produced, emitted,
                   client>>
    /\ UNCHANGED driverVars
    /\ UNCHANGED mainVars

GZipDown ==
    /\ Down("GZipMiddleware")
    /\ CallNext("GZipMiddleware")
    /\ UNCHANGED <<request, response, exc, no_compress, body, nread, inner, produced, emitted,
                   log, client>>
    /\ UNCHANGED driverVars
    /\ UNCHANGED mainVars

CORSDown ==
    /\ Down("CORSMiddleware")
    /\ CallNext("CORSMiddleware")
    /\ UNCHANGED <<request, response, exc, no_compress, body, nread, inner, produced, emitted,
                   log, client>>
    /\ UNCHANGED driverVars
    /\ UNCHANGED mainVars

\* The framework's router and endpoint (the agent invocation included).
Endpoint ==
    /\ Down("router")
    /\ \E out \in EndpointOutcomes :
          /\ exc' = out.raises
          /\ response' = out.response
          /\ produced' = out.response
    /\ Return("router")
    /\ UNCHANGED <<request, no_compress, body, nread, inner, emitted, log, client>>
    /\ UNCHANGED driverVars
    /\ UNCHANGED mainVars

\* CORSMiddleware on a simple request: the allow-origin headers for a listed
\* origin, nothing for any other.
CORSResponse(r, origin) ==
    IF origin \in AllowOrigins
    THEN [r EXCEPT !.headers =
            HSet(HSet(HSet(@, "Access-Control-Allow-Origin", origin),
                      "Access-Control-Allow-Credentials", "true"),
                 "Vary", "Origin")]
    ELSE r

CORSUp ==
    /\ Up("CORSMiddleware")
    /\ response' = IF exc = NoExc THEN CORSResponse(response, request.origin)
                   ELSE response
    /\ Return("CORSMiddleware")
    /\ UNCHANGED <<request, exc, no_compress, body, nread, inner, produced, emitted, log, client>>
    /\ UNCHANGED driverVars
    /\ UNCHANGED mainVars

\* Headers.add_vary_header("Accept-Encoding")
AddVary(h) ==
    IF HGet(h, "vary") = NoValue THEN HSet(h, "Vary", "Accept-Encoding")
    ELSE HSet(h, "Vary", "Origin, Accept-Encoding")

\* A streamed body through the gzip file object: magic, the chunks, trailer.
GzipStream(chunks) ==
    <<Bytes(<<Byte.GZ1, Byte.GZ2>>)>> \o chunks
        \o <<Bytes(<<BLen(Concat(chunks)) % 256>>)>>

GZipResponseAboveMinimum(r, accept_gzip, stream_gzip) ==
    IF ~accept_gzip THEN r
    ELSE IF "content-encoding" \in HNames(r.headers) THEN r
    ELSE IF ~r.streaming
    THEN IF BLen(r.chunks[1]) <= MinimumSize THEN r
         ELSE [r EXCEPT
                 !.chunks = <<GzipCompress(r.chunks[1])>>,
                 !.headers =
                     AddVary(HSet(HSet(@, "Content-Encoding", "gzip"),
                                  "Content-Length",
                                  ToString(BLen(GzipCompress(r.chunks[1])))))]
    ELSE r

\* GZipMiddleware(minimum_size=1000).  Only a client that accepts gzip is
\* served by the compressing responder; a response that already carries a
\* content-encoding is left alone; a body sent in one piece is compressed
\* when it has at least minimum_size bytes; a streamed body is compressed
\* whatever its size, unless the build excludes it (stream_gzip is FALSE).
GZipResponse(r, accept_gzip, stream_gzip) ==
    IF ~accept_gzip THEN r
    ELSE IF "content-encoding" \in HNames(r.headers) THEN r
    ELSE IF ~r.streaming
    THEN IF BLen(r.chunks[1]) < MinimumSize THEN r
         ELSE [r EXCEPT
                 !.chunks = <<GzipCompress(r.chunks[1])>>,
                 !.headers =
                     AddVary(HSet(HSet(@, "Content-Encoding", "gzip"),
                                  "Content-Length",
                                  ToString(BLen(GzipCompress(r.chunks[1])))))]
    ELSE IF stream_gzip
    THEN [r EXCEPT
            !.chunks = GzipStream(@),
            !.fail_after = IF @ = 0 THEN 0 ELSE @ + 1,
            !.headers = AddVary(HDelAll(HSet(@, "Content-Encoding", "gzip"),
                                        "content-length"))]
    ELSE r

GZipUp ==
    /\ Up("GZipMiddleware")
    /\ IF exc = NoExc
       THEN \E stream_gzip \in BOOLEAN :
               response' = GZipResponse(response, request.accept_gzip, stream_gzip)
       ELSE response' = response
    /\ Return("GZipMiddleware")
    /\ UNCHANGED <<request, exc, no_compress, body, nread, inner, produced, emitted, log, client>>
    /\ UNCHANGED driverVars
    /\ UNCHANGED mainVars

\* LoggingMiddleware.dispatch after call_next: it logs the status and returns
\* the response it was given; an exception of call_next passes through it.
LoggingUp ==
    /\ Up("LoggingMiddleware")
    /\ log' = IF exc = NoExc
              THEN Append(log, <<"Response", ToString(response.status)>>)
              ELSE log
    /\ Return("LoggingMiddleware")
    /\ UNCHANGED <<request, response, exc, no_compress, body, nread, inner, produced, emitted,
                   client>>
    /\ UNCHANGED driverVars
    /\ UNCHANGED mainVars

IsRunResponsePathOnly(req, r) == req.path = "/run"

\* process_run_response after call_next: `if request.url.path == "/run" and
\* response.status_code == 200`.  An exception of call_next leaves the function.
IsRunResponse(req, r) == req.path = "/run" /\ r.status = 200

InterceptorUp ==
    /\ Up("process_run_response")
    /\ IF exc # NoExc
       THEN /\ Return("process_run_response")
            /\ UNCHANGED <<inner, emitted, body, nread>>
       ELSE /\ inner' = response
            /\ IF IsRunResponse(request, response)
               THEN /\ phase' = "drain"
                    /\ body' = <<>>
                    /\ nread' = 0
                    /\ UNCHANGED <<pos, trace, emitted>>
               ELSE /\ emitted' = [how |-> "passthrough", response |-> response]
                    /\ Return("process_run_response")
                    /\ UNCHANGED <<body, nread>>
    /\ UNCHANGED <<request, response, exc, no_compress, produced, log, client>>
    /\ UNCHANGED driverVars
    /\ UNCHANGED mainVars

\* One turn of `async for chunk in response.body_iterator: body += chunk`: the
\* iterator yields its next chunk, or raises.
InterceptorReadChunk ==
    /\ phase = "drain"
    /\ MiddlewareStack[pos] = "process_run_response"
    /\ IF response.fail_after # 0 /\ nread = response.fail_after
       THEN /\ exc' = StreamError
            /\ response' = NoResponse
            /\ Return("process_run_response")
            /\ UNCHANGED <<body, nread>>
       ELSE /\ nread < Len(response.chunks)
            /\ body' = BCat(body, response.chunks[nread + 1])
            /\ nread' = nread + 1
            /\ UNCHANGED <<exc, response, pos, phase, trace>>
    /\ UNCHANGED <<request, no_compress, inner, produced, emitted, log, client>>
    /\ UNCHANGED driverVars
    /\ UNCHANGED mainVars

DecodeFails(r, buffered) ==
    LET gz == HGet(r.headers, "content-encoding") = "gzip"
        decompressed == ~gz \/ GzipValid(buffered)
        decoded_body == IF gz /\ decompressed THEN GzipDecompress(buffered)
                        ELSE buffered
    IN  ~(decompressed /\ Utf8Valid(decoded_body) /\ JsonValid(decoded_body))

DecodeLogUnguarded(r, buffered) ==
    [log |-> (IF HGet(r.headers, "content-encoding") = "gzip"
              THEN <<<<"Decompressing gzipped response body for logging.">>>>
              ELSE <<>>)
             \o (IF DecodeFails(r, buffered) THEN <<>>
                 ELSE <<<<"Processed /run response">>>>),
     raised |-> IF DecodeFails(r, buffered) THEN "decode error" ELSE NoExc]

\* The try block that decodes the buffered body for the log: what it logs and
\* the exception that leaves it (none: `except Exception` logs the error and
\* goes on).
DecodeLog(r, buffered) ==
    [log |-> (IF HGet(r.headers, "content-encoding") = "gzip"
              THEN <<<<"Decompressing gzipped response body for logging.">>>>
              ELSE <<>>)
             \o (IF DecodeFails(r, buffered)
                 THEN <<<<"Error processing response body">>>>
                 ELSE <<<<"Processed /run response">>>>),
     raised |-> NoExc]

\* headers = dict(response.headers); if no_compress and "Content-Encoding" in
\* headers: del headers["Content-Encoding"]
RunHeaders(r, flag) ==
    IF flag /\ DictHas(HeadersDict(r.headers), "Content-Encoding")
    THEN DictDel(HeadersDict(r.headers), "Content-Encoding")
    ELSE HeadersDict(r.headers)

RunResponseDecoded(r, buffered, flag) ==
    MakeResponse(r.status, RunHeaders(r, flag),
                 IF HGet(r.headers, "content-encoding") = "gzip" /\ GzipValid(buffered)
                 THEN GzipDecompress(buffered) ELSE buffered)

\* Response(content=body, status_code=response.status_code, headers=headers,
\* media_type=response.media_type); the media type of the response call_next
\* returns is None, so no content-type is added to the copied headers.
RunResponse(r, buffered, flag) ==
    MakeResponse(r.status, RunHeaders(r, flag), buffered)

BodyIteratorEndsAfterFirst(r, n) ==
    r.fail_after = 0 /\ (n = Len(r.chunks) \/ n = 1)

\* The `async for` over response.body_iterator ends: the iterator has raised
\* nothing and has no chunk left after the n it has yielded.
BodyIteratorEnds(r, n) == r.fail_after = 0 /\ n = Len(r.chunks)

\* process_run_response from the end of the body iterator to its return.
InterceptorEmit ==
    /\ phase = "drain"
    /\ MiddlewareStack[pos] = "process_run_response"
    /\ BodyIteratorEnds(response, nread)
    /\ IF DecodeLog(response, body).raised = NoExc
       THEN /\ log' = log \o DecodeLog(response, body).log
                          \o (IF RunHeaders(response, no_compress)
                                 # HeadersDict(response.headers)
                              THEN <<<<"Removing Content-Encoding header">>>>
                              ELSE <<>>)
            /\ response' = RunResponse(response, body, no_compress)
            /\ emitted' = [how |-> "new",
                           response |-> RunResponse(response, body, no_compress)]
            /\ exc' = exc
       ELSE /\ log' = log \o DecodeLog(response, body).log
            /\ response' = NoResponse
            /\ emitted' = emitted
            /\ exc' = DecodeLog(response, body).raised
    /\ Return("process_run_response")
    /\ UNCHANGED <<request, no_compress, body, nread, inner, produced, client>>
    /\ UNCHANGED driverVars
    /\ UNCHANGED mainVars

global_exception_handler_detail_only(e) ==
    [status |-> 500,
     headers |-> <<<<"content-type", "application/json">>>>,
     body |-> <<>>,
     content |-> [detail |-> "Internal server error"],
     complete |-> TRUE,
     raised |-> e]

\* global_exception_handler: JSONResponse(status_code=500, content={"detail":
\* "Internal server error", "message": str(exc)}).
global_exception_handler(e) ==
    [status |-> 500,
     headers |-> <<<<"content-type", "application/json">>>>,
     body |-> <<>>,
     content |-> [detail |-> "Internal server error", message |-> e],
     complete |-> TRUE,
     raised |-> e]

\* The outermost stage.  An exception that reaches it is given to the handler
\* registered for Exception, whose response is sent when no part of a
\* response has been sent yet.  A response that reaches it is sent: status
\* and headers, then the body as its iterator yields it; an exception of the
\* iterator arrives after the response has started.
ServerErrorUp ==
    /\ Up("ServerErrorMiddleware")
    /\ IF exc # NoExc
       THEN /\ client' = global_exception_handler(exc)
            /\ log' = Append(log, <<"Unhandled exception", exc>>)
       ELSE IF response.fail_after = 0
       THEN /\ client' = [status |-> response.status,
                          headers |-> response.headers,
                          body |-> Concat(response.chunks),
                          content |-> NoContent,
                          complete |-> TRUE,
                          raised |-> NoExc]
            /\ log' = log
       ELSE /\ client' = [status |-> response.status,
                          headers |-> response.headers,
                          body |-> Concat(SubSeq(response.chunks, 1,
                                                 response.fail_after)),
                          content |-> NoContent,
                          complete |-> FALSE,
                          raised |-> StreamError]
            /\ log' = Append(log, <<"Unhandled exception", StreamError>>)
    /\ Return("ServerErrorMiddleware")
    /\ UNCHANGED <<request, response, exc, no_compress, body, nread, inner, produced, emitted>>
    /\ UNCHANGED driverVars
    /\ UNCHANGED mainVars

ServerInit ==
    /\ phase = "idle"
    /\ pos = 0
    /\ request = [kind |-> "none"]
    /\ response = NoResponse
    /\ exc = NoExc
    /\ no_compress = FALSE
    /\ body = <<>>
    /\ nread = 0
    /\ inner = NoResponse
    /\ produced = NoResponse
    /\ emitted = [how |-> "none", response |-> NoResponse]
    /\ log = <<>>
    /\ trace = <<>>
    /\ client = NoClient

DriverIdle ==
    /\ d_pc = "idle"
    /\ d_listing = [kind |-> "none"]
    /\ d_active = <<>>
    /\ d_session_id = NoValue
    /\ d_calls = <<>>
    /\ d_result = [kind |-> "none"]

\* The script has not started: nothing is parsed yet.
MainIdle ==
    /\ args = <<>>
    /\ use_complex = FALSE
    /\ use_fresh = TRUE
    /\ session_id = NoValue
    /\ custom_query = NoValue
    /\ m_pc = "start"
    /\ m_listed = <<>>

Init == ServerInit /\ DriverIdle /\ MainIdle

Next ==
    \/ Receive
    \/ ServerErrorDown
    \/ InterceptorDown
    \/ LoggingDown
    \/ GZipDown
    \/ CORSDown
    \/ Endpoint
    \/ CORSUp
    \/ GZipUp
    \/ LoggingUp
    \/ InterceptorUp
    \/ InterceptorReadChunk
    \/ InterceptorEmit
    \/ ServerErrorUp

Spec == Init /\ [][Next]_vars

(***************************************************************************)
(* Properties.                                                             *)
(***************************************************************************)
Logged(entry) == \E i \in 1..Len(log) : log[i] = entry

\* The stages that handled the request in one direction, in order.
StagesOf(dir) ==
    LET sel == SelectSeq(trace, LAMBDA e : e[1] = dir)
    IN  [i \in 1..Len(sel) |-> sel[i][2]]

IsPrefix(s, t) == Len(s) <= Len(t) /\ s = SubSeq(t, 1, Len(s))

HasContentEncoding(h) == \E i \in 1..Len(h) : h[i][1] = "content-encoding"

InterceptorParsed == \E i \in 1..Len(trace) : trace[i][2] = "process_run_response"

\* C1: on /run with inner status 200, when no_compress resolved to true and
\* the inner response carries a content-encoding header, the response that
\* process_run_response emits carries none.
C1_ContentEncodingStripped ==
    (emitted.how = "new" /\ no_compress /\ HasContentEncoding(inner.headers))
        => ~HasContentEncoding(emitted.response.headers)

\* C2: on /run with inner status 200 the response process_run_response emits
\* has the inner status and, as its body, the chunks of the inner body
\* concatenated in order; and it does emit one whenever the inner body ends
\* without raising.
C2_BodyAndStatusPreserved ==
    /\ emitted.how = "new" =>
          /\ emitted.response.chunks = <<Concat(inner.chunks)>>
          /\ emitted.response.status = inner.status
          /\ emitted.response.fail_after = 0
    /\ (phase = "sent" /\ inner # NoResponse /\ request.path = "/run"
        /\ inner.status = 200 /\ inner.fail_after = 0)
          => emitted.how = "new"

C2_Witness ==
    /\ emitted.how = "new"
    /\ no_compress
    /\ HGet(inner.headers, "content-encoding") = "gzip"
    /\ Len(inner.chunks) >= 3
    /\ Logged(<<"Error processing response body">>)

\* C3: when the path is not exactly "/run" or the inner status is not 200,
\* process_run_response returns the object call_next gave it, and takes no
\* chunk from its body iterator.
C3_PassThroughUntouched ==
    (inner # NoResponse /\ (request.path # "/run" \/ inner.status # 200))
        => /\ emitted = [how |-> "passthrough", response |-> inner]
           /\ phase # "drain"
           /\ nread = 0
           /\ body = <<>>

C3_Witness ==
    /\ phase = "sent"
    /\ emitted.how = "passthrough"
    /\ request.path = "/run/"
    /\ inner.status = 200
    /\ no_compress
    /\ inner.streaming
    /\ Len(inner.chunks) >= 2

\* The spellings of a truthy value among the values of Queries.
TruthySpellings == {"true", "TRUE", "True", "1", "yes", "YES", "Yes"}

LastNoCompress(query) ==
    LET idx == {i \in 1..Len(query) : query[i][1] = "noCompress"}
    IN  IF idx = {} THEN ""
        ELSE query[CHOOSE i \in idx : \A j \in idx : j <= i][2]

\* The inner pipeline was called by process_run_response: the stage after it
\* handled the request.
InnerPipelineCalled ==
    \E i \in 1..Len(trace) :
        /\ trace[i] = <<"request", "process_run_response">>
        /\ (i < Len(trace) => trace[i + 1][1] = "request")
        /\ (phase = "sent" => i < Len(trace))

\* A 500 answered to the client comes from an exception of the endpoint or
\* of the body it streams.
Only500FromEndpoint ==
    (phase = "sent" /\ client.status = 500)
        => (produced = NoResponse \/ produced.fail_after # 0)

\* C4 as stated: the flag is true exactly when the query string has a
\* parameter named noCompress whose value is a spelling of true, 1 or yes.
C4_AnyOccurrenceDecides ==
    (InterceptorParsed /\ ~request.query_error)
        => (no_compress <=>
               \E i \in 1..Len(request.query) :
                   /\ request.query[i][1] = "noCompress"
                   /\ request.query[i][2] \in TruthySpellings)

\* C4, amended: the flag is true exactly when the last parameter named
\* noCompress has a value that is a spelling of true, 1 or yes; in every
\* other case it is false, the inner pipeline is still called and no 500 is
\* answered because of the flag.
C4_LastOccurrenceDecides ==
    (InterceptorParsed /\ ~request.query_error)
        => /\ no_compress <=> (LastNoCompress(request.query) \in TruthySpellings)
           /\ InnerPipelineCalled
           /\ Only500FromEndpoint

C4_Witness ==
    /\ phase = "sent"
    /\ Len(request.query) = 2
    /\ request.query[1] = <<"noCompress", "true">>
    /\ request.query[2][1] = "noCompress"
    /\ ~no_compress
    /\ client.status = 200

\* C5: a failure of the query parsing leaves the flag false and the inner
\* pipeline called; a failure of the decompression, of the byte decoding or
\* of the JSON parsing of the buffered body is logged and the response is
\* still emitted with the inner status and body; none of them gives a 500.
C5_FailuresAbsorbed ==
    /\ (InterceptorParsed /\ request.query_error)
          => /\ ~no_compress
             /\ Logged(<<"Error parsing query params">>)
             /\ InnerPipelineCalled
    /\ (phase = "sent" /\ inner # NoResponse /\ request.path = "/run"
        /\ inner.status = 200 /\ inner.fail_after = 0
        /\ DecodeFails(inner, Concat(inner.chunks)))
          => /\ Logged(<<"Error processing response body">>)
             /\ emitted.how = "new"
             /\ emitted.response.status = inner.status
             /\ emitted.response.chunks = <<Concat(inner.chunks)>>
    /\ Only500FromEndpoint

C5_Witness ==
    /\ phase = "sent"
    /\ request.query_error
    /\ Logged(<<"Error parsing query params">>)
    /\ Logged(<<"Error processing response body">>)
    /\ HGet(inner.headers, "content-encoding") = "gzip"
    /\ ~GzipValid(Concat(inner.chunks))
    /\ emitted.how = "new"
    /\ client.status = 200

ErrorContent(e) == [detail |-> "Internal server error", message |-> e]

C7_InterceptorInnermost ==
    phase = "sent" =>
        StagesOf("request") =
            <<"CORSMiddleware", "GZipMiddleware", "LoggingMiddleware",
              "ServerErrorMiddleware", "process_run_response", "router">>

\* C7, amended: outermost to innermost the stages are error translation,
\* interceptor, logging, compression, CORS; the interceptor is the outermost
\* of the registered stages, so on the response path it acts after the CORS
\* stage, after the compression stage and after the logging stage.
C7_InterceptorOutermost ==
    /\ IsPrefix(StagesOf("request"),
                <<"ServerErrorMiddleware", "process_run_response",
                  "LoggingMiddleware", "GZipMiddleware", "CORSMiddleware",
                  "router">>)
    /\ IsPrefix(StagesOf("response"),
                <<"router", "CORSMiddleware", "GZipMiddleware",
                  "LoggingMiddleware", "process_run_response",
                  "ServerErrorMiddleware">>)
    /\ phase = "sent" => Len(StagesOf("response")) = Len(MiddlewareStack)
    /\ (emitted.how # "none" /\ produced # NoResponse)
          => inner = LET g == GZipResponse(CORSResponse(produced, request.origin),
                                            request.accept_gzip, TRUE)
                         n == GZipResponse(CORSResponse(produced, request.origin),
                                            request.accept_gzip, FALSE)
                     IN  IF inner = g THEN g ELSE n

C7_Witness ==
    /\ phase = "sent"
    /\ emitted.how = "new"
    /\ ~HasContentEncoding(produced.headers)
    /\ Logged(<<"Decompressing gzipped response body for logging.">>)
    /\ HGet(client.headers, "access-control-allow-origin") = "http://localhost:3000"

BodySize(r) == BLen(Concat(r.chunks))

\* C8 as stated: where the noCompress exception does not apply, a body under
\* 1000 bytes reaches the client without content-encoding and uncompressed,
\* a body of 1000 bytes or more reaches it content-encoded.
C8_ThresholdAlone ==
    (phase = "sent" /\ produced # NoResponse /\ client.complete
     /\ client.status # 500 /\ ~(request.path = "/run" /\ no_compress))
        => /\ BodySize(produced) < 1000
              => /\ ~HasContentEncoding(client.headers)
                 /\ client.body = Concat(produced.chunks)
           /\ BodySize(produced) >= 1000
              => HasContentEncoding(client.headers)

\* C8, amended: for a client that accepts gzip and a response the endpoint
\* sends in one piece without a content-encoding of its own, a body under
\* 1000 bytes reaches the client without content-encoding and unchanged, a
\* body of 1000 bytes or more reaches it with content-encoding gzip and
\* compressed.  The interceptor never adds a content-encoding header and
\* never changes the size of the body it was given.
C8_ThresholdForGzipClients ==
    /\ (phase = "sent" /\ produced # NoResponse /\ request.accept_gzip
        /\ ~produced.streaming /\ ~HasContentEncoding(produced.headers)
        /\ ~(request.path = "/run" /\ no_compress))
          => /\ client.complete
             /\ BodySize(produced) < 1000
                => /\ ~HasContentEncoding(client.headers)
                   /\ client.body = Concat(produced.chunks)
             /\ BodySize(produced) >= 1000
                => /\ HGet(client.headers, "content-encoding") = "gzip"
                   /\ GzipValid(client.body)
                   /\ GzipDecompress(client.body) = Concat(produced.chunks)
    /\ emitted.how # "none"
          => /\ HasContentEncoding(emitted.response.headers)
                => HasContentEncoding(inner.headers)
             /\ BodySize(emitted.response) = BodySize(inner)

C8_Witness ==
    /\ phase = "sent"
    /\ request.path = "/run"
    /\ ~no_compress
    /\ request.accept_gzip
    /\ emitted.how = "new"
    /\ BodySize(produced) = 1000
    /\ HGet(client.headers, "content-encoding") = "gzip"

(***************************************************************************)
(* The test driver (testing/test_run_endpoint.py): create_session with     *)
(* get_active_sessions and check_session_exists.  The server's answers are *)
(* inputs.                                                                 *)
(***************************************************************************)
\* A JSON object is a function from its keys; a JSON string in the place of
\* an object is the function with the single key "<str>".
IsObject(o) == "<str>" \notin DOMAIN o

\* Python truth of a JSON string or null.
PyTruthy(v) == v \notin {"", NoValue}

SessionObjects ==
    {[sessionId |-> "s-1"],
     [id |-> "s-2"],
     [sessionId |-> "", id |-> "s-2"],
     [sessionId |-> NoValue, session |-> "s-4"],
     [session_id |-> "s-3", session |-> "s-4"],
     [createdAt |-> "t"],
     [x \in {"<str>"} |-> "s-1"]}

SessionLists == UNION {[1..n -> SessionObjects] : n \in 0..MaxSessions}

\* Answers of GET /apps/{app}/users/{user}/sessions: a status and a body (a
\* bare list, an object wrapping the list under "sessions", an object that
\* holds the list under another key, a JSON value of another type, a body
\* that is no JSON), or a failed request.
ListingAnswers ==
    {[status |-> st, shape |-> sh, sessions |-> l] :
        st \in {"200"}, sh \in {"list", "wrapped"}, l \in SessionLists}
    \cup
    {[status |-> "200", shape |-> sh, sessions |-> <<>>] :
        sh \in {"object", "other", "not json"}}
    \cup
    {[status |-> "200", shape |-> "object", sessions |-> <<[sessionId |-> "s-1"]>>]}
    \cup
    {[status |-> st, shape |-> "list", sessions |-> <<[sessionId |-> "s-1"]>>] :
        st \in {"500", "connection error"}}

\* Outcomes of POST /apps/{app}/users/{user}/sessions.
CreateOutcomes == {"200", "409", "500", "connection error"}

\* Outcomes of GET /apps/{app}/users/{user}/sessions/{id}.
CheckOutcomes == {"200", "404", "connection error"}

\* str(uuid.uuid4())
UUIDs == {"uuid-1", "uuid-2"}

check_session_exists_any_answer(outcome) == outcome # "connection error"

\* check_session_exists: True exactly on status 200; a failed request is
\* caught and gives False.
check_session_exists(outcome) == outcome = "200"

\* The try block of get_active_sessions: what it returns, or the exception
\* that leaves it.  The status is tested first; response.json() raises on a
\* body that is no JSON; the list, or the list under "sessions", goes through
\* the debug loop, whose session.get raises on an element that is no object.
get_active_sessions_try(answer) ==
    IF answer.status = "connection error"
    THEN [returned |-> <<>>, raised |-> "RequestException"]
    ELSE IF answer.status # "200" THEN [returned |-> <<>>, raised |-> NoExc]
    ELSE IF answer.shape = "not json"
    THEN [returned |-> <<>>, raised |-> "JSONDecodeError"]
    ELSE IF answer.shape \in {"list", "wrapped"}
    THEN IF \A i \in 1..Len(answer.sessions) : IsObject(answer.sessions[i])
         THEN [returned |-> answer.sessions, raised |-> NoExc]
         ELSE [returned |-> <<>>, raised |-> "AttributeError"]
    ELSE [returned |-> <<>>, raised |-> NoExc]

get_active_sessions_bare_only(answer) ==
    IF get_active_sessions_try(answer).raised # NoExc \/ answer.shape # "list"
    THEN <<>>
    ELSE get_active_sessions_try(answer).returned

\* get_active_sessions: the try block, and `except Exception: return []`.
get_active_sessions(answer) ==
    IF get_active_sessions_try(answer).raised # NoExc THEN <<>>
    ELSE get_active_sessions_try(answer).returned

possible_id_fields_id_first == <<"id", "sessionId", "session_id", "session">>

possible_id_fields == <<"sessionId", "id", "session_id", "session">>

RECURSIVE ExtractIdSkipEmpty(_, _)
ExtractIdSkipEmpty(session, fields) ==
    IF fields = <<>> THEN NoValue
    ELSE IF Head(fields) \in DOMAIN session /\ PyTruthy(session[Head(fields)])
    THEN session[Head(fields)]
    ELSE ExtractIdSkipEmpty(session, Tail(fields))

RECURSIVE ExtractId(_, _)
\* for field in possible_id_fields: if field in first_session:
\*     session_id = first_session[field]; break
ExtractId(session, fields) ==
    IF fields = <<>> THEN NoValue
    ELSE IF Head(fields) \in DOMAIN session THEN session[Head(fields)]
    ELSE ExtractId(session, Tail(fields))

Returned(id) == [kind |-> "returned", value |-> id]
Raised(message) == [kind |-> "raised", value |-> message]

\* create_session is called.
CreateSessionStart ==
    /\ d_pc = "idle"
    /\ d_pc' = "get_active_sessions"
    /\ UNCHANGED <<d_listing, d_active, d_session_id, d_calls, d_result>>
    /\ UNCHANGED serverVars
    /\ UNCHANGED mainVars

\* active_sessions = get_active_sessions(app_name, user_id)
GetActiveSessions ==
    /\ d_pc = "get_active_sessions"
    /\ \E answer \in ListingAnswers :
          /\ d_listing' = answer
          /\ d_active' = get_active_sessions(answer)
    /\ d_calls' = Append(d_calls, <<"GET", "sessions">>)
    /\ d_pc' = "reuse_or_create"
    /\ UNCHANGED <<d_session_id, d_result>>
    /\ UNCHANGED serverVars
    /\ UNCHANGED mainVars

\* create_session from the test of active_sessions to the POST: it returns
\* the identifier of the first session, or goes on with a fresh UUID.
ReuseOrCreate ==
    /\ d_pc = "reuse_or_create"
    /\ IF Len(d_active) > 0 /\ PyTruthy(ExtractId(d_active[1], possible_id_fields))
       THEN /\ d_session_id' = ExtractId(d_active[1], possible_id_fields)
            /\ d_result' = Returned(ExtractId(d_active[1], possible_id_fields))
            /\ d_pc' = "done"
       ELSE /\ \E u \in UUIDs : d_session_id' = u
            /\ d_result' = d_result
            /\ d_pc' = "post"
    /\ UNCHANGED <<d_listing, d_active, d_calls>>
    /\ UNCHANGED serverVars
    /\ UNCHANGED mainVars

\* requests.post(...); response.raise_for_status(), and the except clauses
\* up to the read-back: a 2xx goes on to the verification, a 409 to the
\* verification of the except clause, any other HTTP error and a failed
\* request end in `raise Exception("Failed to create session: ...")`.
PostCreate ==
    /\ d_pc = "post"
    /\ \E outcome \in CreateOutcomes :
          /\ d_calls' = Append(d_calls, <<"POST", "sessions", d_session_id, outcome>>)
          /\ IF outcome = "200"
             THEN d_pc' = "verify_created" /\ d_result' = d_result
             ELSE IF outcome = "409"
             THEN d_pc' = "verify_conflict" /\ d_result' = d_result
             ELSE d_pc' = "done" /\ d_result' = Raised("Failed to create session")
    /\ UNCHANGED <<d_listing, d_active, d_session_id>>
    /\ UNCHANGED serverVars
    /\ UNCHANGED mainVars

\* if check_session_exists(...): return session_id
\* else: raise Exception("Session was created but verification failed"),
\* which the generic except turns into "Failed to create session".
VerifyCreated ==
    /\ d_pc = "verify_created"
    /\ \E outcome \in CheckOutcomes :
          /\ d_calls' = Append(d_calls, <<"GET", "session", d_session_id, outcome>>)
          /\ d_result' = IF check_session_exists(outcome) THEN Returned(d_session_id)
                         ELSE Raised("Failed to create session")
    /\ d_pc' = "done"
    /\ UNCHANGED <<d_listing, d_active, d_session_id>>
    /\ UNCHANGED serverVars
    /\ UNCHANGED mainVars

\* In `except HTTPError` on a 409: if check_session_exists(...): return
\* session_id; otherwise raise Exception("Failed to create session: ...").
VerifyConflict ==
    /\ d_pc = "verify_conflict"
    /\ \E outcome \in CheckOutcomes :
          /\ d_calls' = Append(d_calls, <<"GET", "session", d_session_id, outcome>>)
          /\ d_result' = IF check_session_exists(outcome) THEN Returned(d_session_id)
                         ELSE Raised("Failed to create session")
    /\ d_pc' = "done"
    /\ UNCHANGED <<d_listing, d_active, d_session_id>>
    /\ UNCHANGED serverVars
    /\ UNCHANGED mainVars

DriverNext ==
    \/ CreateSessionStart
    \/ GetActiveSessions
    \/ ReuseOrCreate
    \/ PostCreate
    \/ VerifyCreated
    \/ VerifyConflict

DriverSpec == Init /\ [][DriverNext]_vars

(***************************************************************************)
(* Properties of the driver.                                               *)
(***************************************************************************)
IsPost(c) == c[1] = "POST"
IsCheck(c) == c[1] = "GET" /\ c[2] = "session"

Posts == {i \in 1..Len(d_calls) : IsPost(d_calls[i])}

ReadBackAfter(i) ==
    i < Len(d_calls) /\ IsCheck(d_calls[i + 1]) /\ d_calls[i + 1][3] = d_calls[i][3]

Confirmed(id) ==
    \E i \in 1..Len(d_calls) :
        IsCheck(d_calls[i]) /\ d_calls[i][3] = id /\ d_calls[i][4] = "200"

\* C9 as stated: every create call is followed by a read-back of the same
\* id, whatever its outcome, and create_session returns an id only when a
\* read-back confirmed it.
C9_ReadBackWhateverOutcome ==
    d_pc = "done" =>
        /\ \A i \in Posts : ReadBackAfter(i)
        /\ d_result.kind = "returned" => Confirmed(d_result.value)

\* C9, amended: a create call that succeeds or answers 409 is followed by a
\* read-back of the same id, and create_session then returns the id exactly
\* when the read-back answered 200 (a 409 is "already exists"); a create
\* call that ends in any other HTTP error or in a failed request is followed
\* by no read-back and create_session raises; an id of a session that was
\* created is returned only when the read-back confirmed it.
C9_ReadBackAfterCreateOr409 ==
    d_pc = "done" =>
        /\ \A i \in Posts :
              /\ i = Len(d_calls) - 1 \/ i = Len(d_calls)
              /\ d_calls[i][4] \in {"200", "409"}
                    => /\ ReadBackAfter(i)
                       /\ d_result = IF d_calls[i + 1][4] = "200"
                                     THEN Returned(d_calls[i][3])
                                     ELSE Raised("Failed to create session")
              /\ d_calls[i][4] \notin {"200", "409"}
                    => /\ i = Len(d_calls)
                       /\ d_result.kind = "raised"
        /\ (d_result.kind = "returned" /\ Posts # {}) => Confirmed(d_result.value)
        /\ (d_result.kind = "returned" /\ Posts = {})
              => \A i \in 1..Len(d_calls) : ~IsCheck(d_calls[i])

C9_Witness ==
    /\ d_pc = "done"
    /\ \E i \in Posts : d_calls[i][4] = "409" /\ ReadBackAfter(i)
    /\ d_result.kind = "returned"
    /\ Confirmed(d_result.value)

\* C10 as stated: whenever discovery returns at least one session the first
\* one is reused and no create call is issued; only when it returns none is
\* a fresh UUID generated and a POST issued.
C10_ReuseWheneverDiscovered ==
    d_pc = "done" =>
        /\ Len(d_active) > 0 => (d_result.kind = "returned" /\ Posts = {})
        /\ Posts # {} => Len(d_active) = 0

FirstPresentId(session) ==
    LET present == {i \in 1..4 : possible_id_fields[i] \in DOMAIN session}
    IN  IF present = {} THEN NoValue
        ELSE session[possible_id_fields[CHOOSE i \in present :
                                            \A j \in present : i <= j]]

Reusable ==
    /\ Len(d_active) > 0
    /\ FirstPresentId(d_active[1]) \notin {"", NoValue}

\* C10, amended: when discovery returns at least one session and the first
\* of the fields sessionId, id, session_id, session that the first session
\* has holds a non-empty value, that value is returned and no create call is
\* issued; when discovery returns no session, or the first session gives no
\* such value, a fresh UUID is generated and a POST is issued for it.
C10_ReuseWhenFirstHasId ==
    /\ (d_pc = "done" /\ Reusable)
          => /\ d_result = Returned(FirstPresentId(d_active[1]))
             /\ Posts = {}
             /\ d_calls = <<<<"GET", "sessions">>>>
    /\ (d_pc = "done" /\ ~Reusable)
          => /\ Cardinality(Posts) = 1
             /\ \A i \in Posts : d_calls[i][3] \in UUIDs /\ i = 2
             /\ d_result.kind = "returned" => d_result.value \in UUIDs

C10_Witness ==
    /\ d_pc = "done"
    /\ Len(d_active) = 2
    /\ "sessionId" \in DOMAIN d_active[1]
    /\ d_active[1].sessionId = ""
    /\ "id" \in DOMAIN d_active[1]
    /\ Posts # {}
    /\ d_result.kind = "returned"

(***************************************************************************)
(* The script (__main__ of testing/test_run_endpoint.py): the argument     *)
(* list is parsed, one of the test functions is chosen and run.  The       *)
(* server's answers are inputs.                                            *)
(***************************************************************************)
\* sys.argv[1:]
ArgLists ==
    {<<>>,
     <<"--help">>,
     <<"--question", "--help">>,
     <<"--list-sessions">>,
     <<"--session", "abc123", "--list-sessions">>,
     <<"--complex">>,
     <<"--fresh">>,
     <<"--no-fresh">>,
     <<"--complex", "--fresh">>,
     <<"--complex", "--no-fresh">>,
     <<"--fresh", "--no-fresh">>,
     <<"--no-fresh", "--fresh", "--complex">>,
     <<"--session", "abc123">>,
     <<"--session", "abc123", "--fresh">>,
     <<"--no-fresh", "--session", "abc123">>,
     <<"--session", "abc123", "--complex">>,
     <<"--session", "abc123", "--question", "Rome?">>,
     <<"--complex", "--question", "Rome?", "--session", "abc123">>,
     <<"--fresh", "--session">>,
     <<"--session", "">>,
     <<"--question", "Rome?">>,
     <<"--question", "">>,
     <<"--fresh", "--question", "Rome?">>,
     <<"--complex", "--question", "Rome?">>,
     <<"--no-fresh", "--question", "Rome?">>,
     <<"--fresh", "--no-fresh", "--question", "Rome?">>,
     <<"--no-fresh", "--complex", "--question", "Rome?">>,
     <<"--no-fresh", "--question", "--complex">>}

\* `x in args`
In(x, a) == \E i \in 1..Len(a) : a[i] = x

RECURSIVE ParseValues(_, _, _)
\* The while loop over args: an option that takes a value consumes the next
\* argument, whatever it is; without a next argument it is skipped.
ParseValues(a, i, acc) ==
    IF i > Len(a) THEN acc
    ELSE IF a[i] = "--session" /\ i + 1 <= Len(a)
    THEN ParseValues(a, i + 2, [acc EXCEPT !.session_id = a[i + 1]])
    ELSE IF a[i] = "--question" /\ i + 1 <= Len(a)
    THEN ParseValues(a, i + 2, [acc EXCEPT !.custom_query = a[i + 1]])
    ELSE ParseValues(a, i + 1, acc)

\* The options as the script holds them after parsing: the defaults, then
\* `--complex` and `--no-fresh` by membership, then the options with a value.
ParseArgs(a) ==
    LET values == ParseValues(a, 1, [session_id |-> NoValue, custom_query |-> NoValue])
    IN  [use_complex |-> In("--complex", a),
         use_fresh |-> ~In("--no-fresh", a),
         session_id |-> values.session_id,
         custom_query |-> values.custom_query]

\* `if session_id: ... elif use_fresh: ... else: ...`: the function the
\* script runs; "__main__" is the branch that calls create_session itself.
Dispatch(o) ==
    IF PyTruthy(o.session_id) THEN "test_with_specific_session"
    ELSE IF o.use_fresh
    THEN IF o.use_complex THEN "create_fresh_session_and_return_id"
         ELSE "create_fresh_session"
    ELSE IF o.use_complex
    THEN IF PyTruthy(o.custom_query) THEN "__main__"
         ELSE "test_run_endpoint_with_complex_query"
    ELSE IF PyTruthy(o.custom_query) THEN "__main__"
         ELSE "test_run_endpoint"

\* The script from its start to the call of the function it chose.
MainParse ==
    /\ m_pc = "start"
    /\ \E a \in ArgLists :
          /\ args' = a
          /\ IF In("--help", a) \/ In("-h", a)
             THEN /\ m_pc' = "exit"
                  /\ UNCHANGED <<use_complex, use_fresh, session_id, custom_query>>
             ELSE IF In("--list-sessions", a)
             THEN /\ m_pc' = "list_sessions"
                  /\ UNCHANGED <<use_complex, use_fresh, session_id, custom_query>>
             ELSE /\ use_complex' = ParseArgs(a).use_complex
                  /\ use_fresh' = ParseArgs(a).use_fresh
                  /\ session_id' = ParseArgs(a).session_id
                  /\ custom_query' = ParseArgs(a).custom_query
                  /\ m_pc' = Dispatch(ParseArgs(a))
    /\ UNCHANGED m_listed
    /\ UNCHANGED driverVars
    /\ UNCHANGED serverVars

SimpleQuery == "I want to plan a trip to Paris for 5 days in December."
ComplexQuery == "I want to plan a family trip to Japan for 10 days in April."

\* query_text = custom_query if custom_query else <default>
QueryText(custom, default) == IF PyTruthy(custom) THEN custom ELSE default

\* Outcomes of POST /run: 200 with a JSON body, 200 with a body that is no
\* JSON, an HTTP error, a failed request.
RunOutcomes == {"200", "200 not json", "500", "connection error"}

RunCall(id, text, outcome) == <<"POST", "run", id, text, outcome>>
CreateCall(id, outcome) == <<"POST", "sessions", id, outcome>>
CheckCall(id, outcome) == <<"GET", "session", id, outcome>>

\* test_with_specific_session: no call without a session id; otherwise the
\* POST /run with the custom or the simple default text.  Every outcome of
\* the POST is caught and printed by the function's except clauses.
TestWithSpecificSession ==
    /\ m_pc = "test_with_specific_session"
    /\ IF ~PyTruthy(session_id)
       THEN d_calls' = d_calls
       ELSE \E outcome \in RunOutcomes :
               d_calls' = Append(d_calls,
                                 RunCall(session_id,
                                         QueryText(custom_query, SimpleQuery),
                                         outcome))
    /\ m_pc' = "exit"
    /\ UNCHANGED <<d_pc, d_listing, d_active, d_session_id, d_result>>
    /\ UNCHANGED <<args, use_complex, use_fresh, session_id, custom_query, m_listed>>
    /\ UNCHANGED serverVars

\* test_with_complex_query_and_session: the same with the complex default.
TestWithComplexQueryAndSession ==
    /\ m_pc = "test_with_complex_query_and_session"
    /\ IF ~PyTruthy(session_id)
       THEN d_calls' = d_calls
       ELSE \E outcome \in RunOutcomes :
               d_calls' = Append(d_calls,
                                 RunCall(session_id,
                                         QueryText(custom_query, ComplexQuery),
                                         outcome))
    /\ m_pc' = "exit"
    /\ UNCHANGED <<d_pc, d_listing, d_active, d_session_id, d_result>>
    /\ UNCHANGED <<args, use_complex, use_fresh, session_id, custom_query, m_listed>>
    /\ UNCHANGED serverVars

\* The body shared by create_fresh_session and
\* create_fresh_session_and_return_id: POST the new id, raise_for_status
\* (any HTTP error, a 409 included, and a failed request end in the
\* function's `except Exception`), then check_session_exists.
FreshCreate(id, created, checked) ==
    IF created # "200"
    THEN [calls |-> <<CreateCall(id, created)>>, verified |-> FALSE]
    ELSE [calls |-> <<CreateCall(id, created), CheckCall(id, checked)>>,
          verified |-> check_session_exists(checked)]

\* create_fresh_session up to its call of test_with_specific_session.
CreateFreshSession ==
    /\ m_pc = "create_fresh_session"
    /\ \E u \in UUIDs, created \in CreateOutcomes, checked \in CheckOutcomes :
          /\ session_id' = u
          /\ d_calls' = d_calls \o FreshCreate(u, created, checked).calls
          /\ m_pc' = IF FreshCreate(u, created, checked).verified
                     THEN "test_with_specific_session"
                     ELSE "exit"
    /\ UNCHANGED <<d_pc, d_listing, d_active, d_session_id, d_result>>
    /\ UNCHANGED <<args, use_complex, use_fresh, custom_query, m_listed>>
    /\ UNCHANGED serverVars

\* session_id = create_fresh_session_and_return_id(); if session_id:
\* test_with_complex_query_and_session(...)
CreateFreshSessionAndReturnId ==
    /\ m_pc = "create_fresh_session_and_return_id"
    /\ \E u \in UUIDs, created \in CreateOutcomes, checked \in CheckOutcomes :
          /\ d_calls' = d_calls \o FreshCreate(u, created, checked).calls
          /\ IF FreshCreate(u, created, checked).verified
             THEN /\ session_id' = u
                  /\ m_pc' = "test_with_complex_query_and_session"
             ELSE /\ session_id' = NoValue
                  /\ m_pc' = "exit"
    /\ UNCHANGED <<d_pc, d_listing, d_active, d_session_id, d_result>>
    /\ UNCHANGED <<args, use_complex, use_fresh, custom_query, m_listed>>
    /\ UNCHANGED serverVars

\* The functions that call create_session first.
CreateSessionCallers ==
    {"__main__", "test_run_endpoint", "test_run_endpoint_with_complex_query"}

\* session_id = create_session(app_name, user_id), in one of its callers.
CallCreateSession ==
    /\ m_pc \in CreateSessionCallers
    /\ CreateSessionStart

\* The script's own calls of create_session, outside any try block: an
\* exception of create_session ends the script with a traceback; an id goes
\* to test_with_complex_query_and_session or test_with_specific_session.
MainAfterCreateSession ==
    /\ m_pc = "__main__"
    /\ d_pc = "done"
    /\ IF d_result.kind = "raised"
       THEN /\ m_pc' = "traceback"
            /\ session_id' = session_id
       ELSE /\ session_id' = d_result.value
            /\ m_pc' = IF use_complex THEN "test_with_complex_query_and_session"
                       ELSE "test_with_specific_session"
    /\ UNCHANGED driverVars
    /\ UNCHANGED <<args, use_complex, use_fresh, custom_query, m_listed>>
    /\ UNCHANGED serverVars

\* test_run_endpoint and test_run_endpoint_with_complex_query after their
\* create_session: an exception of it is caught ("Failed to setup session");
\* otherwise check_session_exists, and only when it is True the POST /run,
\* whose every outcome is caught.  Both are called without a custom query.
RunAfterCreateSession(default) ==
    IF d_result.kind = "raised"
    THEN /\ d_calls' = d_calls
         /\ session_id' = session_id
    ELSE \E checked \in CheckOutcomes, outcome \in RunOutcomes :
            /\ session_id' = d_result.value
            /\ d_calls' =
                  d_calls \o <<CheckCall(d_result.value, checked)>>
                    \o (IF check_session_exists(checked)
                        THEN <<RunCall(d_result.value, QueryText(NoValue, default),
                                       outcome)>>
                        ELSE <<>>)

TestRunEndpoint ==
    /\ m_pc = "test_run_endpoint"
    /\ d_pc = "done"
    /\ RunAfterCreateSession(SimpleQuery)
    /\ m_pc' = "exit"
    /\ UNCHANGED <<d_pc, d_listing, d_active, d_session_id, d_result>>
    /\ UNCHANGED <<args, use_complex, use_fresh, custom_query, m_listed>>
    /\ UNCHANGED serverVars

TestRunEndpointWithComplexQuery ==
    /\ m_pc = "test_run_endpoint_with_complex_query"
    /\ d_pc = "done"
    /\ RunAfterCreateSession(ComplexQuery)
    /\ m_pc' = "exit"
    /\ UNCHANGED <<d_pc, d_listing, d_active, d_session_id, d_result>>
    /\ UNCHANGED <<args, use_complex, use_fresh, custom_query, m_listed>>
    /\ UNCHANGED serverVars

\* The field names list_sessions tries for the identifier.
list_sessions_id_fields == <<"sessionId", "id", "session_id", "session">>

\* session_id = session_id or "Unknown"
OrUnknown(id) == IF PyTruthy(id) THEN id ELSE "Unknown"

\* list_sessions, then sys.exit(0): the identifier printed for every session
\* that get_active_sessions returned.
ListSessions ==
    /\ m_pc = "list_sessions"
    /\ \E answer \in ListingAnswers :
          /\ d_listing' = answer
          /\ d_active' = get_active_sessions(answer)
          /\ m_listed' =
                [i \in 1..Len(get_active_sessions(answer)) |->
                    OrUnknown(ExtractId(get_active_sessions(answer)[i],
                                        list_sessions_id_fields))]
    /\ d_calls' = Append(d_calls, <<"GET", "sessions">>)
    /\ m_pc' = "exit"
    /\ UNCHANGED <<d_pc, d_session_id, d_result>>
    /\ UNCHANGED <<args, use_complex, use_fresh, session_id, custom_query>>
    /\ UNCHANGED serverVars

MainNext ==
    \/ MainParse
    \/ ListSessions
    \/ TestWithSpecificSession
    \/ TestWithComplexQueryAndSession
    \/ CreateFreshSession
    \/ CreateFreshSessionAndReturnId
    \/ CallCreateSession
    \/ GetActiveSessions
    \/ ReuseOrCreate
    \/ PostCreate
    \/ VerifyCreated
    \/ VerifyConflict
    \/ MainAfterCreateSession
    \/ TestRunEndpoint
    \/ TestRunEndpointWithComplexQuery

MainSpec == Init /\ [][MainNext]_vars

(***************************************************************************)
(* Properties of the script.                                               *)
(***************************************************************************)
IsRun(c) == c[1] = "POST" /\ c[2] = "run"
IsCreate(c) == c[1] = "POST" /\ c[2] = "sessions"
IsListing(c) == c[1] = "GET" /\ c[2] = "sessions"

Runs == {i \in 1..Len(d_calls) : IsRun(d_calls[i])}
Creates == {i \in 1..Len(d_calls) : IsCreate(d_calls[i])}

Parsed == m_pc \notin {"start", "list_sessions"} /\ ~In("--help", args)
                /\ ~In("--list-sessions", args)

Ended == m_pc \in {"exit", "traceback"}

\* The id that follows `--session` in the argument list, NoValue without one.
SessionArg ==
    LET idx == {i \in 1..Len(args) - 1 : args[i] = "--session"}
    IN  IF idx = {} THEN NoValue ELSE args[(CHOOSE i \in idx : TRUE) + 1]

\* The script took the fresh path: its first call creates a new UUID.
FreshTaken ==
    /\ d_calls # <<>>
    /\ IsCreate(d_calls[1])
    /\ d_calls[1][3] \in UUIDs
    /\ \A i \in Runs : d_calls[i][3] = d_calls[1][3]

\* The script took the reuse path: its first call lists the sessions.
ReuseTaken == d_calls # <<>> /\ IsListing(d_calls[1])

\* C11: with `--session <id>` the only call is the POST /run with that id,
\* whatever --fresh and --no-fresh say; otherwise with `--fresh` a new
\* session is created and used, --no-fresh present or not; the reuse path is
\* taken only without `--session <id>` and without `--fresh`.
C11_SessionThenFreshThenReuse ==
    (Parsed /\ Ended) =>
        /\ PyTruthy(SessionArg)
              => /\ Len(d_calls) = 1
                 /\ IsRun(d_calls[1])
                 /\ d_calls[1][3] = SessionArg
        /\ (~PyTruthy(SessionArg) /\ In("--fresh", args)) => FreshTaken
        /\ ReuseTaken => (~PyTruthy(SessionArg) /\ ~In("--fresh", args))


\* An HTTP call of the script ended in an HTTP error or a failed request.
HttpErrorSeen ==
    \E i \in 1..Len(d_calls) :
        \/ IsCreate(d_calls[i]) /\ d_calls[i][4] # "200"
        \/ IsCheck(d_calls[i]) /\ d_calls[i][4] # "200"
        \/ IsRun(d_calls[i]) /\ d_calls[i][5] # "200"
        \/ IsListing(d_calls[i]) /\ d_listing.status # "200"

\* C12: on every path of the script an HTTP error or a failed request is
\* caught by the function that made the call; none reaches the top level of
\* the script as an uncaught exception, so the script never ends in a
\* traceback.
C12_NoUncaughtException ==
    HttpErrorSeen => m_pc # "traceback"


Listed == d_listing # [kind |-> "none"]

ListOfObjects(answer) ==
    /\ answer.status = "200"
    /\ answer.shape \in {"list", "wrapped"}
    /\ \A i \in 1..Len(answer.sessions) : IsObject(answer.sessions[i])

\* C13: get_active_sessions returns the session objects of the answer, in
\* their order, when the listing answers 200 with a bare list of session
\* objects or with an object holding that list under "sessions"; for every
\* other outcome (another status, a failed request, a body of another type
\* or that is no JSON, an object without "sessions", an element that is no
\* object) it returns the empty list; and no exception leaves it: its caller
\* goes on, and create_session raises only after its create call.
C13_ListOrWrappedList ==
    Listed =>
        /\ ListOfObjects(d_listing) => d_active = d_listing.sessions
        /\ ~ListOfObjects(d_listing) => d_active = <<>>
        /\ d_pc # "get_active_sessions"
        /\ d_result.kind = "raised" => Creates # {}
        /\ m_pc # "list_sessions"
        /\ (m_pc = "traceback") => Creates # {}

C13_Witness ==
    /\ Listed
    /\ d_listing.shape = "wrapped"
    /\ Len(d_active) = 2
    /\ d_active[1] # d_active[2]
    /\ d_active = d_listing.sessions


\* The priority order of the field names.
PriorityOrder == <<"sessionId", "id", "session_id", "session">>

Lowest(S) == CHOOSE i \in S : \A j \in S : i <= j

\* The value of the first field, in priority order, that holds a non-empty
\* value; NoValue when no field does.
FirstNonEmpty(session) ==
    LET holding == {i \in 1..Len(PriorityOrder) :
                       /\ PriorityOrder[i] \in DOMAIN session
                       /\ session[PriorityOrder[i]] \notin {"", NoValue}}
    IN  IF holding = {} THEN NoValue ELSE session[PriorityOrder[Lowest(holding)]]

\* The value of the first field, in priority order, that the object has,
\* empty or not; NoValue when it has none of them.
FirstPresent(session) ==
    LET present == {i \in 1..Len(PriorityOrder) : PriorityOrder[i] \in DOMAIN session}
    IN  IF present = {} THEN NoValue ELSE session[PriorityOrder[Lowest(present)]]

PastReuseOrCreate == d_pc \in {"post", "verify_created", "verify_conflict", "done"}

SessionsListed == Listed /\ m_pc = "exit" /\ In("--list-sessions", args)

\* C14 as stated: the identifier is the value of the first field, in the
\* order sessionId, id, session_id, session, that holds a non-empty value; a
\* field that is present but empty or null does not keep a later field from
\* being used.  create_session reuses that identifier; list_sessions prints it.
C14_FirstNonEmptyFieldDecides ==
    /\ (PastReuseOrCreate /\ Len(d_active) > 0
        /\ FirstNonEmpty(d_active[1]) # NoValue)
          => /\ d_result = Returned(FirstNonEmpty(d_active[1]))
             /\ Creates = {}
    /\ SessionsListed
          => m_listed = [i \in 1..Len(d_active) |->
                            IF FirstNonEmpty(d_active[i]) # NoValue
                            THEN FirstNonEmpty(d_active[i]) ELSE "Unknown"]

\* C14, amended: the identifier is the value of the first field, in the
\* order sessionId, id, session_id, session, that the session object has; the
\* search stops at that field even when its value is empty or null, and then
\* there is no usable identifier: create_session generates a new UUID and
\* list_sessions prints "Unknown".  Both apply the same rule.
C14_FirstPresentFieldDecides ==
    /\ (PastReuseOrCreate /\ Len(d_active) > 0)
          => IF FirstPresent(d_active[1]) \notin {"", NoValue}
             THEN /\ d_result = Returned(FirstPresent(d_active[1]))
                  /\ d_session_id = FirstPresent(d_active[1])
                  /\ Creates = {}
             ELSE /\ d_session_id \in UUIDs
                  /\ d_result.kind = "returned" => d_result.value = d_session_id
    /\ SessionsListed
          => m_listed = [i \in 1..Len(d_active) |->
                            IF FirstPresent(d_active[i]) \notin {"", NoValue}
                            THEN FirstPresent(d_active[i]) ELSE "Unknown"]

C14_Witness ==
    /\ SessionsListed
    /\ Len(d_active) = 2
    /\ "sessionId" \in DOMAIN d_active[1]
    /\ d_active[1].sessionId = ""
    /\ "id" \in DOMAIN d_active[1]
    /\ d_active[1].id = "s-2"
    /\ m_listed = <<"Unknown", "s-3">>


(***************************************************************************)
(* Properties of the interceptor's headers, of its buffering and of the    *)
(* logging stage.                                                          *)
(***************************************************************************)
\* How many entries of the header list h are the pair e.
Count(h, e) == Cardinality({i \in 1..Len(h) : h[i] = e})

SameEntries(h, g) ==
    \A e \in {h[i] : i \in 1..Len(h)} \cup {g[i] : i \in 1..Len(g)} :
        Count(h, e) = Count(g, e)

\* C15: on /run with inner status 200, when the flag is false or the inner
\* response has no content-encoding header, the response process_run_response
\* emits carries exactly the (name, value) entries of the inner response,
\* none dropped, added or changed, entries of one name included.
C15_HeadersCopied ==
    (emitted.how = "new" /\ (~no_compress \/ ~HasContentEncoding(inner.headers)))
        => SameEntries(emitted.response.headers, inner.headers)


AfterDrainEntries ==
    {<<"Decompressing gzipped response body for logging.">>,
     <<"Processed /run response">>,
     <<"Error processing response body">>,
     <<"Removing Content-Encoding header">>}

\* C16: on /run with inner status 200, process_run_response takes every
\* chunk of the inner body before it logs the preview, adjusts the headers or
\* builds the outgoing response: while it drains, nothing of these has
\* happened and the client has received nothing; the response it emits holds
\* all chunks; a client that got an answer got it after the last chunk was
\* read, or got the 500 of a body iterator that raised.
C16_DrainedBeforeEmit ==
    /\ phase = "drain"
          => /\ request.path = "/run"
             /\ inner.status = 200
             /\ response = inner
             /\ emitted.how = "none"
             /\ client = NoClient
             /\ \A e \in AfterDrainEntries : ~Logged(e)
             /\ body = Concat(SubSeq(inner.chunks, 1, nread))
    /\ emitted.how = "new"
          => /\ nread = Len(inner.chunks)
             /\ body = Concat(inner.chunks)
             /\ ~emitted.response.streaming
             /\ emitted.response.chunks = <<Concat(inner.chunks)>>
    /\ (client # NoClient /\ inner # NoResponse /\ request.path = "/run"
        /\ inner.status = 200)
          => \/ emitted.how = "new" /\ nread = Len(inner.chunks)
             \/ /\ inner.fail_after # 0
                /\ nread = inner.fail_after
                /\ client.status = 500

C16_Witness ==
    /\ phase = "sent"
    /\ emitted.how = "new"
    /\ inner.streaming
    /\ produced.streaming
    /\ Len(produced.chunks) = 2
    /\ nread = Len(inner.chunks)
    /\ client.body = Concat(inner.chunks)


StageIndex(stage) ==
    CHOOSE i \in 1..Len(MiddlewareStack) : MiddlewareStack[i] = stage

LogCount(tag) == Cardinality({i \in 1..Len(log) : log[i][1] = tag})

\* How many times LoggingMiddleware has called the inner pipeline.
LoggingCalls ==
    Cardinality({i \in 1..Len(trace) : trace[i] = <<"request", "LoggingMiddleware">>})

\* What the stages inside LoggingMiddleware return for the endpoint's
\* response r.
InsideLogging(r) ==
    {GZipResponse(CORSResponse(r, request.origin), request.accept_gzip, g) :
        g \in BOOLEAN}

\* C17: for every request LoggingMiddleware logs the method and the full
\* URL (path and query string) before it calls the inner pipeline, calls it
\* exactly once, logs the status code only after the inner pipeline has
\* returned a response, and returns that response as it got it: body, status
\* and headers are those the stages inside it produced.
C17_LogAroundInnerPipeline ==
    LET L == StageIndex("LoggingMiddleware")
        before == phase = "idle" \/ (phase = "down" /\ pos <= L)
        inside == (phase = "down" /\ pos > L) \/ (phase = "up" /\ pos >= L)
        after == phase \in {"up", "drain", "sent"} /\ pos < L
        requestEntry == <<"Request", request.method, <<request.path, request.query>>>>
    IN  /\ before
              => /\ LogCount("Request") = 0
                 /\ LogCount("Response") = 0
                 /\ LoggingCalls = 0
        /\ inside
              => /\ LogCount("Request") = 1
                 /\ Logged(requestEntry)
                 /\ LogCount("Response") = 0
                 /\ LoggingCalls = 1
        /\ after
              => /\ LogCount("Request") = 1
                 /\ Logged(requestEntry)
                 /\ LoggingCalls = 1
                 /\ IF produced = NoResponse
                    THEN LogCount("Response") = 0
                    ELSE /\ LogCount("Response") = 1
                         /\ Logged(<<"Response", ToString(produced.status)>>)
        /\ (phase = "up" /\ pos \in {L, L - 1} /\ exc = NoExc)
              => response \in InsideLogging(produced)
        /\ inner # NoResponse => inner \in InsideLogging(produced)

C17_Witness ==
    /\ phase = "sent"
    /\ Len(request.query) = 2
    /\ Logged(<<"Request", "POST", <<"/run", request.query>>>>)
    /\ Logged(<<"Response", "200">>)
    /\ LoggingCalls = 1
    /\ inner.streaming
    /\ Len(produced.chunks) = 2
    /\ HGet(inner.headers, "content-encoding") = "gzip"


\* An existence check of id answered 200 before the i-th call.
VerifiedBefore(id, i) ==
    \E j \in 1..(i - 1) :
        IsCheck(d_calls[j]) /\ d_calls[j][3] = id /\ d_calls[j][4] = "200"

\* C18: on every path of the script a POST /run for a session id is issued
\* only after an existence check of that id has answered 200 in the same
\* run, the `--session <id>` path and the `--no-fresh --question` paths
\* included.
C18_RunOnlyAfterVerified ==
    \A i \in Runs : VerifiedBefore(d_calls[i][3], i)

\* The text that follows `--question` in the argument list.
QuestionGiven == \E i \in 1..Len(args) - 1 : args[i] = "--question"

QuestionArg == args[(CHOOSE i \in 1..Len(args) - 1 : args[i] = "--question") + 1]

\* C19: for every argument list that leads to a /run call, with --question
\* the custom text is sent; without it the text is the complex default
\* exactly when --complex is among the arguments, whichever session option
\* is given.
C19_ComplexIffFlag ==
    \A i \in Runs :
        IF QuestionGiven
        THEN d_calls[i][4] = QuestionArg
        ELSE /\ d_calls[i][4] \in {SimpleQuery, ComplexQuery}
             /\ d_calls[i][4] = ComplexQuery <=> In("--complex", args)

====
